---- MODULE Spec2Model ----
(***************************************************************************)
(* Model of obfuscapk/tool.py: the Apktool, Jarsigner and Zipalign         *)
(* wrappers.  The state is the object the caller constructed, the          *)
(* filesystem it looks at and the record of its last call: the arguments,  *)
(* the filesystem before it, what the environment decided about the child  *)
(* process, the events of the call (child processes started, files opened  *)
(* for writing) and its result (a returned text or a raised exception);    *)
(* decoded is the output directory of the call before it when that was a   *)
(* decode without force that returned, and '' otherwise.                   *)
(*                                                                         *)
(* A path string is [abs, segs]: segs is the sequence of its components,   *)
(* each component the sequence of its dot-separated parts, so 'app.apk'   *)
(* is <<"app", "apk">>.  The empty string '' is [abs |-> FALSE,            *)
(* segs |-> <<>>].  The filesystem maps resolved absolute component        *)
(* sequences to nodes.                                                     *)
(***************************************************************************)
EXTENDS Integers, Sequences, FiniteSets, TLC

VARIABLES self, fs, op, args, pre, proc, result, trace, decoded

vars == <<self, fs, op, args, pre, proc, result, trace, decoded>>

----------------------------------------------------------------------------
(* Bounds *)

\* Longest archive (in entries) the initial filesystem holds.
MaxEntries == 3

----------------------------------------------------------------------------
(* Paths: os.path *)

Path(abs, segs) == [abs |-> abs, segs |-> segs]

\* '' and None: both are falsy for "if not output_dir_path".
EmptyPath == Path(FALSE, <<>>)

\* The working directory of the process, /w.
Cwd == << <<"w">> >>

\* os.path.dirname: everything before the last separator.
dirname(p) ==
  IF p.segs = <<>> THEN p ELSE Path(p.abs, SubSeq(p.segs, 1, Len(p.segs) - 1))

\* os.path.basename: the last component.
basename(p) == IF p.segs = <<>> THEN <<>> ELSE p.segs[Len(p.segs)]

\* os.path.splitext(name)[0]: the name without its last extension.
splitext0(name) ==
  IF Len(name) > 1 THEN SubSeq(name, 1, Len(name) - 1) ELSE name

\* os.path.join(d, name): join('', 'app') is 'app'.
join(d, name) == Path(d.abs, Append(d.segs, name))

\* What the kernel resolves a path string to.
Resolve(p) == IF p.abs THEN p.segs ELSE Cwd \o p.segs

----------------------------------------------------------------------------
(* Filesystem *)

\* File contents.  fmt "zip" is a well-formed archive with these entries,
\* "partial" a truncated write of one, "other" anything else.
Content(fmt, entries, aligned) ==
  [fmt |-> fmt, entries |-> entries, aligned |-> aligned]

NoContent == Content("none", <<>>, FALSE)

OtherContent == Content("other", <<>>, FALSE)

DirNode == [kind |-> "dir", data |-> NoContent]

FileNode(c) == [kind |-> "file", data |-> c]

\* os.path.isdir: stat('') fails, so isdir('') is False.
isdir(f, p) ==
  /\ p # EmptyPath
  /\ Resolve(p) \in DOMAIN f
  /\ f[Resolve(p)].kind = "dir"

\* os.path.isfile
isfile(f, p) ==
  /\ p # EmptyPath
  /\ Resolve(p) \in DOMAIN f
  /\ f[Resolve(p)].kind = "file"

PutNode(f, p, node) == (Resolve(p) :> node) @@ f

\* os.remove
remove(f, p) == [q \in DOMAIN f \ {Resolve(p)} |-> f[q]]

----------------------------------------------------------------------------
(* Child processes: subprocess.check_output(cmd, stderr=STDOUT).strip()    *)
(* followed by output.decode()                                             *)

\* A command-line token: a literal word or a path argument.
Lit(s) == [lit |-> s, path |-> EmptyPath]

Arg(p) == [lit |-> "", path |-> p]

\* Bytes a child may print: a letter, a blank, and a byte that is not UTF-8.
Bytes == {"t", " ", "xFF"}

Whitespace == {" "}

\* The outputs the model lets a child print: nothing, a word between
\* blanks, and a byte that is not UTF-8.
Outputs == {<<>>, <<" ", "t", " ">>, <<"xFF">>}

\* What the environment decides about a child: whether it can be started,
\* its exit status and its combined stdout+stderr.
Procs ==
  {[launch |-> FALSE, code |-> 0, out |-> <<>>]}
    \cup {[launch |-> TRUE, code |-> c, out |-> o] : c \in {0, 1}, o \in Outputs}

NoProc == [launch |-> FALSE, code |-> 0, out |-> <<>>]

\* bytes.strip(): drop leading and trailing whitespace.
strip(b) ==
  LET keep == {i \in 1..Len(b) : b[i] \notin Whitespace}
  IN IF keep = {} THEN <<>>
     ELSE LET lo == CHOOSE i \in keep : \A j \in keep : i <= j
              hi == CHOOSE i \in keep : \A j \in keep : j <= i
          IN SubSeq(b, lo, hi)

\* bytes.decode() with the default strict handler.
validUtf8(b) == \A i \in 1..Len(b) : b[i] # "xFF"

Return(text) == [kind |-> "return", exc |-> "", value |-> text]

Raise(exc, output) == [kind |-> "raise", exc |-> exc, value |-> output]

\* Events of a call.
Exec(cmd, f) == [ev |-> "exec", cmd |-> cmd, fs |-> f]

OpenWb(p, f) == [ev |-> "open_wb", cmd |-> <<Arg(p)>>, fs |-> f]

Outcome(f, r, t) == [fs |-> f, result |-> r, trace |-> t]

\* The try block around check_output: the result of running cmd on
\* filesystem f when the environment decides p; ok is the filesystem the
\* tool leaves on exit status zero.
check_output(f, cmd, p, ok) ==
  IF ~p.launch THEN Outcome(f, Raise("OSError", <<>>), <<Exec(cmd, f)>>)
  ELSE IF p.code # 0
    THEN Outcome(f, Raise("CalledProcessError", p.out), <<Exec(cmd, f)>>)
  ELSE IF ~validUtf8(strip(p.out))
    THEN Outcome(ok, Raise("UnicodeDecodeError", <<>>), <<Exec(cmd, f)>>)
  ELSE Outcome(ok, Return(strip(p.out)), <<Exec(cmd, f)>>)

\* list.insert(i, x)
insert(s, i, x) == SubSeq(s, 1, i) \o <<x>> \o SubSeq(s, i + 1, Len(s))

----------------------------------------------------------------------------
(* Apktool *)

apktool_path == Lit("apktool")

\* The output directory decode works on: the given one, or a directory
\* next to the input named after it.
decode_output_dir(apk_path, output_dir_path) ==
  IF output_dir_path = EmptyPath
    THEN join(dirname(apk_path), splitext0(basename(apk_path)))
    ELSE output_dir_path

decode_cmd(apk_path, out, force) ==
  LET cmd == <<apktool_path, Lit("d"), Arg(apk_path), Lit("-o"), Arg(out)>>
  IN IF force THEN insert(cmd, 2, Lit("--force")) ELSE cmd

\* apktool creates the final directory.
apktool_decoded(f, out) == PutNode(f, out, DirNode)

decode(f, apk_path, output_dir_path, force, p) ==
  IF ~isfile(f, apk_path) THEN Outcome(f, Raise("FileNotFoundError", <<>>), <<>>)
  ELSE IF output_dir_path # EmptyPath /\ ~isdir(f, dirname(output_dir_path))
    THEN Outcome(f, Raise("NotADirectoryError", <<>>), <<>>)
  ELSE LET out == decode_output_dir(apk_path, output_dir_path)
       IN IF isdir(f, out) /\ ~force
            THEN Outcome(f, Raise("FileExistsError", <<>>), <<>>)
            ELSE check_output(f, decode_cmd(apk_path, out, force), p,
                              apktool_decoded(f, out))

\* build_cmd without the flag that makes apktool rebuild everything.
build_cmd_plain(source_dir_path, output_apk_path) ==
  LET cmd == <<apktool_path, Lit("b"), Arg(source_dir_path)>>
  IN IF output_apk_path # EmptyPath
       THEN cmd \o <<Lit("-o"), Arg(output_apk_path)>>
       ELSE cmd

build_cmd(source_dir_path, output_apk_path) ==
  LET cmd == <<apktool_path, Lit("b"), Lit("--force-all"), Arg(source_dir_path)>>
  IN IF output_apk_path # EmptyPath
       THEN cmd \o <<Lit("-o"), Arg(output_apk_path)>>
       ELSE cmd

\* build without the check of its input directory.
build_unchecked(f, source_dir_path, output_apk_path, p) ==
  check_output(f, build_cmd(source_dir_path, output_apk_path), p, f)

build(f, source_dir_path, output_apk_path, p) ==
  IF ~isdir(f, source_dir_path)
    THEN Outcome(f, Raise("NotADirectoryError", <<>>), <<>>)
    ELSE check_output(f, build_cmd(source_dir_path, output_apk_path), p, f)

----------------------------------------------------------------------------
(* Jarsigner *)

jarsigner_path == Lit("jarsigner")

\* A call of sign, as seen by its caller.
Called(apk_path, keystore_file_path, keystore_password, key_alias, f) ==
  [ev |-> "sign",
   cmd |-> <<Arg(apk_path), Lit(keystore_file_path), Lit(keystore_password),
             Lit(key_alias)>>,
   fs |-> f]

sign_cmd(apk_path, keystore_file_path, keystore_password, key_alias) ==
  <<jarsigner_path,
    Lit("-tsa"), Lit("http://timestamp.comodoca.com/rfc3161"),
    Lit("-sigalg"), Lit("SHA1withRSA"), Lit("-digestalg"), Lit("SHA1"),
    Lit("-keystore"), Lit(keystore_file_path),
    Lit("-storepass"), Lit(keystore_password),
    Arg(apk_path), Lit(key_alias)>>

\* Archive entries: a name (a sequence of characters, in tokens) and its data.
Entry(filename, data) == [filename |-> filename, data |-> data]

\* str.startswith
startswith(s, prefix) ==
  /\ Len(s) >= Len(prefix)
  /\ SubSeq(s, 1, Len(prefix)) = prefix

MetaInf == <<"META-INF", "/">>

SignatureFile == <<"META-INF", "/", "CERT.RSA">>

\* jarsigner writes its signature file into the archive, replacing an
\* earlier one of the same name.
jarsigner_signed(f, apk_path) ==
  LET c == f[Resolve(apk_path)].data
      kept == SelectSeq(c.entries, LAMBDA e : e.filename # SignatureFile)
  IN IF c.fmt = "zip"
       THEN PutNode(f, apk_path,
                    FileNode(Content("zip", Append(kept, Entry(SignatureFile, 1)),
                                     c.aligned)))
       ELSE f

sign(f, apk_path, keystore_file_path, keystore_password, key_alias, p) ==
  LET call == Called(apk_path, keystore_file_path, keystore_password, key_alias, f)
  IN IF ~isfile(f, apk_path)
       THEN Outcome(f, Raise("FileNotFoundError", <<>>), <<call>>)
       ELSE LET run == check_output(f, sign_cmd(apk_path, keystore_file_path,
                                                keystore_password, key_alias),
                                    p, jarsigner_signed(f, apk_path))
            IN Outcome(run.fs, run.result, <<call>> \o run.trace)

\* is_signed with the prefix 'META-INF' instead of 'META-INF/'.
is_signed_loose(entries) ==
  \E i \in 1..Len(entries) : startswith(entries[i].filename, <<"META-INF">>)

\* any(entry.filename.startswith('META-INF/') for entry in infolist())
is_signed(entries) ==
  \E i \in 1..Len(entries) : startswith(entries[i].filename, MetaInf)

\* ZipFile.read(name): the archive's name table keeps, for each name, the
\* last entry of that name.
zip_read(entries, name) ==
  LET same == {i \in 1..Len(entries) : entries[i].filename = name}
      last == CHOOSE i \in same : \A j \in same : j <= i
  IN entries[last].data

\* The in-memory archive: one writestr(entry, read(entry.filename)) for each
\* entry outside META-INF/, in infolist() order.
unsigned_apk_buffer(entries) ==
  LET kept == SelectSeq(entries, LAMBDA e : ~startswith(e.filename, MetaInf))
  IN [i \in 1..Len(kept) |-> Entry(kept[i].filename, zip_read(entries, kept[i].filename))]

Min(a, b) == IF a < b THEN a ELSE b

\* A file whose writing stopped after n entries' worth of bytes.
partial(c, n) == Content("partial", SubSeq(c.entries, 1, Min(n, Len(c.entries))), FALSE)

\* Faults of the I/O layer: none, or a failure while reading the source,
\* while building the buffer, when opening the destination for writing, or
\* while writing it (after `written` entries' worth of bytes).
IO(fault, written) == [fault |-> fault, written |-> written]

NoFault == IO("none", 0)

ResignIOs ==
  {NoFault, IO("read", 0), IO("filter", 0), IO("open", 0), IO("write", 0), IO("write", 1)}

resign(f, apk_path, keystore_file_path, keystore_password, key_alias, io, p) ==
  IF ~isfile(f, apk_path)
    THEN Outcome(f, Raise(IF isdir(f, apk_path) THEN "IsADirectoryError"
                                                ELSE "FileNotFoundError", <<>>), <<>>)
  ELSE IF io.fault = "read" THEN Outcome(f, Raise("OSError", <<>>), <<>>)
  ELSE LET current_apk == f[Resolve(apk_path)].data
       IN IF current_apk.fmt # "zip" THEN Outcome(f, Raise("BadZipFile", <<>>), <<>>)
          ELSE IF ~is_signed(current_apk.entries)
            THEN sign(f, apk_path, keystore_file_path, keystore_password, key_alias, p)
          ELSE IF io.fault = "filter" THEN Outcome(f, Raise("MemoryError", <<>>), <<>>)
          ELSE IF io.fault = "open" THEN Outcome(f, Raise("OSError", <<>>), <<>>)
          ELSE LET buffer == Content("zip", unsigned_apk_buffer(current_apk.entries), FALSE)
               IN IF io.fault = "write"
                    THEN Outcome(PutNode(f, apk_path, FileNode(partial(buffer, io.written))),
                                 Raise("OSError", <<>>), <<OpenWb(apk_path, f)>>)
                    ELSE LET written == PutNode(f, apk_path, FileNode(buffer))
                             signed == sign(written, apk_path, keystore_file_path,
                                            keystore_password, key_alias, p)
                         IN Outcome(signed.fs, signed.result,
                                    <<OpenWb(apk_path, f)>> \o signed.trace)

----------------------------------------------------------------------------
(* Zipalign *)

zipalign_path == Lit("zipalign")

\* '{0}.copy.apk'.format(join(dirname(apk_path), splitext(basename(apk_path))[0]))
apk_copy_path(apk_path) ==
  join(dirname(apk_path), splitext0(basename(apk_path)) \o <<"copy", "apk">>)

align_cmd(copy_path, apk_path) ==
  <<zipalign_path, Lit("-f"), Lit("4"), Arg(copy_path), Arg(apk_path)>>

CopyIOs == {NoFault, IO("open", 0), IO("write", 0), IO("write", 1)}

\* shutil.copy2(src, dst): a directory dst means the file dst/basename(src).
copy2(f, src, dst, io) ==
  LET target == IF isdir(f, dst) THEN join(dst, basename(src)) ELSE dst
      data == f[Resolve(src)].data
  IN IF io.fault = "open" THEN f
     ELSE IF io.fault = "write" THEN PutNode(f, target, FileNode(partial(data, io.written)))
     ELSE PutNode(f, target, FileNode(data))

\* zipalign -f 4 <copy> <apk> writes the aligned copy over the original.
zipaligned(f, copy_path, apk_path) ==
  IF isfile(f, copy_path)
    THEN LET c == f[Resolve(copy_path)].data
         IN PutNode(f, apk_path, FileNode(Content(c.fmt, c.entries, TRUE)))
    ELSE f

\* align_finally without the removal.
keep_copy(f, copy_path) == f

\* The finally block: remove the temp file used for zipalign.
align_finally(f, copy_path) ==
  IF isfile(f, copy_path) THEN remove(f, copy_path) ELSE f

align(f, apk_path, io, p) ==
  IF ~isfile(f, apk_path) THEN Outcome(f, Raise("FileNotFoundError", <<>>), <<>>)
  ELSE LET copy_path == apk_copy_path(apk_path)
           copied == copy2(f, apk_path, copy_path, io)
       IN IF io.fault # "none"
            THEN Outcome(align_finally(copied, copy_path), Raise("OSError", <<>>), <<>>)
            ELSE LET run == check_output(copied, align_cmd(copy_path, apk_path), p,
                                         zipaligned(copied, copy_path, apk_path))
                 IN Outcome(align_finally(run.fs, copy_path), run.result, run.trace)

----------------------------------------------------------------------------
(* The callers' inputs and the initial filesystems *)

AbsApk == Path(TRUE, << <<"w">>, <<"app", "apk">> >>)

RelApk == Path(FALSE, << <<"app", "apk">> >>)

ApkPaths == {AbsApk, RelApk}

\* Output directories: omitted, absolute, a bare relative name, and a
\* relative name with a directory component.
AbsOut == Path(TRUE, << <<"w">>, <<"out">> >>)

BareOut == Path(FALSE, << <<"out">> >>)

SubDir == Path(FALSE, << <<"sub">> >>)

SubOut == join(SubDir, <<"out">>)

AppDir == Path(FALSE, << <<"app">> >>)

OutDirs == {EmptyPath, AbsOut, BareOut, SubOut}

SourceDirs == {AbsOut, SubOut, AppDir}

OutApks == {EmptyPath, Path(TRUE, << <<"w">>, <<"new", "apk">> >>)}

Keystores == {"ks.jks"}

Passwords == {"pw"}

Aliases == {"key0", "key1"}

RECURSIVE SeqsUpTo(_, _)
SeqsUpTo(S, n) ==
  IF n = 0 THEN {<<>>}
  ELSE LET shorter == SeqsUpTo(S, n - 1)
       IN shorter \cup {Append(s, x) : s \in {t \in shorter : Len(t) = n - 1}, x \in S}

Entries ==
  {Entry(SignatureFile, 1), Entry(<<"META-INF", ".txt">>, 1),
   Entry(<<"a.txt">>, 1), Entry(<<"a.txt">>, 2)}

Archives == {Content("zip", e, FALSE) : e \in SeqsUpTo(Entries, MaxEntries)}

\* The directories every initial filesystem has: / and the working directory.
BaseFs == (<<>> :> DirNode) @@ (Cwd :> DirNode)

Absent == [kind |-> "none", data |-> NoContent]

\* A filesystem with node n at p, or without p when n is no node.
With(f, p, n) == IF n.kind = "none" THEN f ELSE PutNode(f, p, n)

\* __init__: the object and the tool it runs.
Constructed(class, f) ==
  /\ self = class
  /\ fs = f
  /\ op = "none"
  /\ args = [apk_path |-> EmptyPath]
  /\ pre = f
  /\ proc = NoProc
  /\ result = Return(<<>>)
  /\ trace = <<>>
  /\ decoded = EmptyPath

\* Apktool(): the archive and the directories decode and build look at may
\* or may not be there.
InitApktool ==
  \E apk \in {Absent, FileNode(OtherContent)},
     sub \in {Absent, DirNode}, out \in {Absent, DirNode}, app \in {Absent, DirNode} :
    Constructed("Apktool",
                With(With(With(With(BaseFs, AbsApk, apk), SubDir, sub), AbsOut, out),
                     AppDir, app))

\* Jarsigner(): the archive is missing, a directory, no archive, or any
\* archive of up to MaxEntries entries.
InitJarsigner ==
  \E apk \in {Absent, DirNode, FileNode(OtherContent)} \cup {FileNode(a) : a \in Archives} :
    Constructed("Jarsigner", With(BaseFs, AbsApk, apk))

\* Zipalign(): the archive may be missing, and the path of the copy may be
\* free, a file or a directory.
InitZipalign ==
  \E apk \in {Absent, FileNode(OtherContent),
              FileNode(Content("zip", <<Entry(<<"a.txt">>, 1)>>, FALSE))},
     copy \in {Absent, DirNode, FileNode(OtherContent)} :
    Constructed("Zipalign", With(With(BaseFs, AbsApk, apk), apk_copy_path(AbsApk), copy))

Init == InitApktool \/ InitJarsigner \/ InitZipalign

launched(t) == SelectSeq(t, LAMBDA e : e.ev = "exec")

\* A call of a method: p is what the environment decides about the child
\* process, if the call starts one.
Done(name, a, p, o) ==
  /\ launched(o.trace) # <<>> \/ p = NoProc
  /\ op' = name
  /\ args' = a
  /\ pre' = fs
  /\ proc' = p
  /\ fs' = o.fs
  /\ result' = o.result
  /\ trace' = o.trace
  /\ decoded' = IF op = "decode" /\ ~args.force /\ result.kind = "return"
                   THEN decode_output_dir(args.apk_path, args.output_dir_path)
                   ELSE EmptyPath
  /\ UNCHANGED self

Decode ==
  /\ self = "Apktool"
  /\ \E apk_path \in ApkPaths, output_dir_path \in OutDirs, force \in BOOLEAN, p \in Procs :
       Done("decode",
            [apk_path |-> apk_path, output_dir_path |-> output_dir_path, force |-> force],
            p, decode(fs, apk_path, output_dir_path, force, p))

Build ==
  /\ self = "Apktool"
  /\ \E source_dir_path \in SourceDirs, output_apk_path \in OutApks, p \in Procs :
       Done("build",
            [source_dir_path |-> source_dir_path, output_apk_path |-> output_apk_path],
            p, build(fs, source_dir_path, output_apk_path, p))

Sign ==
  /\ self = "Jarsigner"
  /\ \E apk_path \in {AbsApk}, ks \in Keystores, pw \in Passwords, alias \in Aliases,
        p \in Procs :
       Done("sign",
            [apk_path |-> apk_path, keystore_file_path |-> ks, keystore_password |-> pw,
             key_alias |-> alias, io |-> NoFault],
            p, sign(fs, apk_path, ks, pw, alias, p))

Resign ==
  /\ self = "Jarsigner"
  /\ \E apk_path \in {AbsApk}, ks \in Keystores, pw \in Passwords, alias \in Aliases,
        io \in ResignIOs, p \in Procs :
       Done("resign",
            [apk_path |-> apk_path, keystore_file_path |-> ks, keystore_password |-> pw,
             key_alias |-> alias, io |-> io],
            p, resign(fs, apk_path, ks, pw, alias, io, p))

Align ==
  /\ self = "Zipalign"
  /\ \E apk_path \in ApkPaths, io \in CopyIOs, p \in Procs :
       Done("align", [apk_path |-> apk_path, io |-> io], p, align(fs, apk_path, io, p))

Next == Decode \/ Build \/ Sign \/ Resign \/ Align

Spec == Init /\ [][Next]_vars

----------------------------------------------------------------------------
(* What the claims speak of *)

\* The node at a resolved path.
NodeAt(f, r) == IF r \in DOMAIN f THEN f[r] ELSE Absent

DirAt(f, r) == NodeAt(f, r).kind = "dir"

FileAt(f, r) == NodeAt(f, r).kind = "file"

\* The directory that holds a resolved path.
Parent(r) == SubSeq(r, 1, Len(r) - 1)

\* The commands of the child processes the last call started, in order.
Commands == [i \in 1..Len(launched(trace)) |-> launched(trace)[i].cmd]

\* An entry under META-INF/.
UnderMetaInf(e) ==
  Len(e.filename) >= 2 /\ e.filename[1] = "META-INF" /\ e.filename[2] = "/"

\* The last call was resign on a well-formed archive.
ResignedArchive ==
  /\ op = "resign"
  /\ FileAt(pre, Resolve(args.apk_path))
  /\ pre[Resolve(args.apk_path)].data.fmt = "zip"

OriginalEntries == pre[Resolve(args.apk_path)].data.entries

Signed == \E i \in 1..Len(OriginalEntries) : UnderMetaInf(OriginalEntries[i])

\* The original's entries outside META-INF/, as they are in the original.
Stripped == SelectSeq(OriginalEntries, LAMBDA e : ~UnderMetaInf(e))

----------------------------------------------------------------------------
(* C1 *)

RequiredInput == IF op = "build" THEN args.source_dir_path ELSE args.apk_path

MissingInput == op # "none" /\ Resolve(RequiredInput) \notin DOMAIN pre

\* C1: a call whose required input file or directory does not exist raises
\* the documented error (NotADirectoryError from build, FileNotFoundError from
\* decode, sign and align, and from resign's opening of the archive) and
\* starts no child process.
C1_FailsFast ==
  MissingInput =>
    /\ result = Raise(IF op = "build" THEN "NotADirectoryError" ELSE "FileNotFoundError",
                      <<>>)
    /\ launched(trace) = <<>>

C1_Witness ==
  /\ MissingInput
  /\ op = "build"
  /\ result.exc = "NotADirectoryError"

----------------------------------------------------------------------------
(* C2 *)

\* C2: decode of an existing input without force, when the output directory
\* (given or derived) exists, raises FileExistsError and starts no child;
\* decode with force, when the output directory's parent exists, starts
\* exactly the command <tool> d --force <input> -o <outputDir>.
C2_ForceContract ==
  op = "decode" /\ FileAt(pre, Resolve(args.apk_path)) =>
    LET out == decode_output_dir(args.apk_path, args.output_dir_path)
    IN /\ ~args.force /\ DirAt(pre, Resolve(out)) =>
            /\ result = Raise("FileExistsError", <<>>)
            /\ launched(trace) = <<>>
       /\ args.force /\ DirAt(pre, Parent(Resolve(out))) =>
            Commands = << <<apktool_path, Lit("d"), Lit("--force"), Arg(args.apk_path),
                            Lit("-o"), Arg(out)>> >>

----------------------------------------------------------------------------
(* C3 *)

\* The path of align's temporary copy: <dir>/<basename-without-extension>.copy.apk
TempCopy(p) ==
  Append(Parent(Resolve(p)), splitext0(basename(p)) \o <<"copy", "apk">>)

----------------------------------------------------------------------------
(* C4 *)

\* C4: when resign strips an archive that has an entry under META-INF/, the
\* file the signer is started on is an archive of exactly the original's
\* other entries, in order, each with its original content.
C4_StripKeepsOthers ==
  ResignedArchive /\ Signed /\ launched(trace) # <<>> =>
    launched(trace)[1].fs[Resolve(args.apk_path)].data = Content("zip", Stripped, FALSE)

----------------------------------------------------------------------------
(* C5 *)

\* resign ended without calling sign: its strip phase failed.
StripFailed == op = "resign" /\ \A i \in 1..Len(trace) : trace[i].ev # "sign"

\* C5: when the strip phase fails, resign raises, no signer is started, and
\* the archive on disk is what it was before the call or the complete
\* stripped archive.
C5_NoPartialOverwrite ==
  StripFailed =>
    /\ result.kind = "raise"
    /\ launched(trace) = <<>>
    /\ \/ NodeAt(fs, Resolve(args.apk_path)) = NodeAt(pre, Resolve(args.apk_path))
       \/ /\ ResignedArchive
          /\ NodeAt(fs, Resolve(args.apk_path)) = FileNode(Content("zip", Stripped, FALSE))

----------------------------------------------------------------------------
(* C6 *)

\* C6: resign of a readable archive with no entry under META-INF/ never opens
\* it for writing; it calls sign once, with its own four arguments, on the
\* file as it was before the call, and ends as that call of sign ends.
C6_UnsignedNotRewritten ==
  ResignedArchive /\ ~Signed /\ args.io.fault # "read" =>
    LET signing == sign(pre, args.apk_path, args.keystore_file_path,
                        args.keystore_password, args.key_alias, proc)
    IN /\ \A i \in 1..Len(trace) : trace[i].ev # "open_wb"
       /\ SelectSeq(trace, LAMBDA e : e.ev = "sign")
            = <<Called(args.apk_path, args.keystore_file_path, args.keystore_password,
                       args.key_alias, pre)>>
       /\ Len(launched(trace)) = 1
       /\ launched(trace)[1].fs = pre
       /\ result = signing.result
       /\ fs = signing.fs

C6_Witness ==
  /\ ResignedArchive
  /\ ~Signed
  /\ OriginalEntries # <<>>
  /\ result.kind = "return"

----------------------------------------------------------------------------
(* C7 *)

\* C7: a decode, build, sign or align that starts a child starts exactly one,
\* and the child decides the result: exit status zero returns the trimmed
\* output, a nonzero status raises CalledProcessError with the output, and a
\* child that cannot be started raises the launch error.
C7_ChildDecides ==
  op \in {"decode", "build", "sign", "align"} /\ launched(trace) # <<>> =>
    /\ Len(launched(trace)) = 1
    /\ proc.launch /\ proc.code = 0 => result = Return(strip(proc.out))
    /\ proc.launch /\ proc.code # 0 => result = Raise("CalledProcessError", proc.out)
    /\ ~proc.launch => result = Raise("OSError", <<>>)

----------------------------------------------------------------------------
(* C8 *)

\* C8: decode of an existing input with an output directory given raises
\* NotADirectoryError exactly when the parent directory of the output
\* directory does not exist; with none given it never does, and works on the
\* directory named after the input, next to it.
C8_ParentCheck ==
  op = "decode" /\ FileAt(pre, Resolve(args.apk_path)) =>
    IF args.output_dir_path # EmptyPath
      THEN result.exc = "NotADirectoryError"
             <=> ~DirAt(pre, Parent(Resolve(args.output_dir_path)))
      ELSE /\ result.exc # "NotADirectoryError"
           /\ \A i \in 1..Len(Commands) :
                Commands[i][Len(Commands[i])]
                  = Arg(join(dirname(args.apk_path), splitext0(basename(args.apk_path))))

----------------------------------------------------------------------------
(* C9 *)

\* C9: decode without force into a directory that does not exist yet, and whose
\* parent does, does not raise FileExistsError; and after a decode without
\* force has returned, build of its output directory starts exactly the
\* command <tool> b --force-all <dir>.
C9_DecodeThenBuild ==
  /\ ( /\ op = "decode"
       /\ ~args.force
       /\ FileAt(pre, Resolve(args.apk_path))
       /\ args.output_dir_path # EmptyPath
       /\ Resolve(args.output_dir_path) \notin DOMAIN pre
       /\ DirAt(pre, Parent(Resolve(args.output_dir_path))) )
     => result.exc # "FileExistsError"
  /\ ( /\ op = "build"
       /\ decoded # EmptyPath
       /\ args.source_dir_path = decoded
       /\ args.output_apk_path = EmptyPath )
     => Commands = << <<apktool_path, Lit("b"), Lit("--force-all"), Arg(decoded)>> >>

C9_Witness ==
  /\ op = "build"
  /\ decoded = SubOut
  /\ args.source_dir_path = decoded
  /\ args.output_apk_path = EmptyPath
  /\ result.kind = "return"

----------------------------------------------------------------------------
(* C10 *)

\* C10: every file other than the archive given to align is there after the
\* call with the content it had before.
C10_OtherFilesKept ==
  op = "align" =>
    \A q \in DOMAIN pre :
      q # Resolve(args.apk_path) /\ pre[q].kind = "file" => NodeAt(fs, q) = pre[q]

====
